---------------------------- MODULE Spec2Model ----------------------------
(***************************************************************************)
(* Model of the acs-sim attitude-estimation core:                          *)
(*   bessel.c        calculateBessel, dfilterBessel, ffilterBessel         *)
(*   acs-datagen.h   the history buffers, getOmega, getSVec, readSensors   *)
(*                   and the vector macros of macros.h                     *)
(*   datavis.c       main: priming, the telemetry loop, the signal handler *)
(*                                                                         *)
(* Numbers.  C floats and doubles are modelled as integers (fixed point)   *)
(* extended with the three IEEE special values NaN, +Inf and -Inf, which   *)
(* are encoded as integers outside the range of the finite values.  The    *)
(* arithmetic operators FAdd, FSub, FMul and FDiv follow the IEEE rules    *)
(* for the special values (Inf - Inf = NaN, 0 * Inf = NaN, 0 / 0 = NaN,    *)
(* x / 0 = Inf, every operation on NaN is NaN) and are exact integer       *)
(* operations on finite values, with division rounded to the nearest       *)
(* integer.  Signed zeros, overflow and underflow are not modelled.        *)
(* The kernel weights and the sun vector, whose values lie in [0,1] and    *)
(* [-1,1], are held in thousandths (Milli).                                *)
(***************************************************************************)
EXTENDS Integers, Sequences, FiniteSets, TLC

VARIABLES
    bessel_coeff,      \* bessel.c:18, the kernel, in thousandths
    g_B, g_Bt, g_W, g_S,                 \* acs-datagen.h:20-45, the buffers
    mag_index, bdot_index, omega_index, sol_index,   \* acs-datagen.h:70-85
    B_full, Bdot_full, W_full, S_full,   \* acs-datagen.h:90-105
    g_night,           \* acs-datagen.h:110
    g_first_detumble,  \* acs-datagen.h:120
    acs_ct,            \* acs-datagen.h:125
    status,            \* value returned by the last readSensors call (0: none)
    writes,            \* history: number of slot writes made to each buffer
    last,              \* history: inputs and intermediate values of the
                       \* last cycle
    fault_age,         \* history: cycles since a fault that no success and
                       \* no unclean cycle has followed (0: no fault pending)
    kernel,            \* history: the last call of calculateBessel
    walk,              \* the look-back walk in progress
    norm,              \* the last use of NORMALIZE outside the pipeline
    pc,                \* position of main() in datavis.c
    prime_i,           \* datavis.c:99, the loop variable i
    done,              \* datavis.c:15
    caught,            \* history: where main stood when the handler ran
    g_datavis_st,      \* datavis.c:25, the telemetry record
    new_socket,        \* datavis.c:49, -1 or a connected descriptor
    sz                 \* datavis.c:135, what the last send() returned (0: none)

vars == <<bessel_coeff, g_B, g_Bt, g_W, g_S, mag_index, bdot_index,
          omega_index, sol_index, B_full, Bdot_full, W_full, S_full,
          g_night, g_first_detumble, acs_ct, status, writes, last,
          fault_age, kernel, walk, norm, pc, prime_i,
          done, caught, g_datavis_st, new_socket, sz>>

pipelineVars == <<g_B, g_Bt, g_W, g_S, mag_index, bdot_index,
          omega_index, sol_index, B_full, Bdot_full, W_full, S_full,
          g_night, g_first_detumble, acs_ct, status, writes, last,
          fault_age>>

\* What only the operations exercised on their own change
probeVars == <<kernel, walk, norm>>

mainVars == <<pc, prime_i, done, caught, g_datavis_st, new_socket, sz>>

---------------------------------------------------------------------------
(* Program constants *)

SH_BUFFER_SIZE == 64

BESSEL_FREQ_CUTOFF == 5

BESSEL_ORDER == 3

CSS_MIN_LUX_THRESHOLD == 500

DETUMBLE_TIME_STEP == 100000

PRIME_CYCLES == 10

\* One unit of a value held in thousandths.  BESSEL_MIN_THRESHOLD (0.001)
\* is one thousandth, i.e. 1 in the units of bessel_coeff.
Milli == 1000

BESSEL_MIN_THRESHOLD == 1

(* Bounds of the model *)

\* Number of readSensors cycles main() is followed for.
MaxCycles == 68

\* Number of readSensors cycles of the sensor harness (free inputs).
MaxFreeCycles == 4

---------------------------------------------------------------------------
(* IEEE special values and arithmetic *)

NaN == 2000000001

PInf == 2000000000

NInf == 0 - PInf

IsNaN(x) == x = NaN

IsInf(x) == x = PInf \/ x = NInf

IsFinite(x) == ~IsNaN(x) /\ ~IsInf(x)

Sign(x) == IF x = PInf THEN 1 ELSE IF x = NInf THEN -1
           ELSE IF x > 0 THEN 1 ELSE IF x < 0 THEN -1 ELSE 0

Abs(x) == IF x < 0 THEN 0 - x ELSE x

SignedInf(s) == IF s < 0 THEN NInf ELSE PInf

FNeg(a) == IF IsNaN(a) THEN NaN
           ELSE IF a = PInf THEN NInf
           ELSE IF a = NInf THEN PInf
           ELSE 0 - a

FAdd(a, b) ==
    IF IsNaN(a) \/ IsNaN(b) THEN NaN
    ELSE IF IsInf(a) THEN (IF IsInf(b) /\ b # a THEN NaN ELSE a)
    ELSE IF IsInf(b) THEN b
    ELSE a + b

FSub(a, b) == FAdd(a, FNeg(b))

FMul(a, b) ==
    IF IsNaN(a) \/ IsNaN(b) THEN NaN
    ELSE IF IsInf(a) \/ IsInf(b)
         THEN (IF a = 0 \/ b = 0 THEN NaN ELSE SignedInf(Sign(a) * Sign(b)))
    ELSE a * b

\* Integer quotient rounded to the nearest integer (halves away from zero).
RoundDiv(a, b) ==
    LET q == (2 * Abs(a) + Abs(b)) \div (2 * Abs(b))
    IN  IF Sign(a) * Sign(b) < 0 THEN 0 - q ELSE q

FDiv(a, b) ==
    IF IsNaN(a) \/ IsNaN(b) THEN NaN
    ELSE IF IsInf(a)
         THEN (IF IsInf(b) THEN NaN
               ELSE SignedInf(Sign(a) * (IF b < 0 THEN -1 ELSE 1)))
    ELSE IF IsInf(b) THEN 0
    ELSE IF b = 0 THEN (IF a = 0 THEN NaN ELSE SignedInf(Sign(a)))
    ELSE RoundDiv(a, b)

\* (float) of a double: values beyond 2^24 keep 24 significant bits.
RECURSIVE FloatUlp(_, _)
FloatUlp(m, u) == IF m < 16777216 THEN u ELSE FloatUlp(m \div 2, 2 * u)

DoubleToFloat(x) ==
    IF ~IsFinite(x) THEN x
    ELSE LET u == FloatUlp(Abs(x), 1)
         IN  RoundDiv(x, u) * u

---------------------------------------------------------------------------
(* Vectors: <<x, y, z>>, the x_, y_, z_ triples of macros.h *)

Axes == 1..3

NullVec == <<0, 0, 0>>

VECTOR_OP_SUB(s1, s2) ==
    << FSub(s1[1], s2[1]), FSub(s1[2], s2[2]), FSub(s1[3], s2[3]) >>

VECTOR_MIXED_MUL(s1, s2) ==
    << FMul(s1[1], s2), FMul(s1[2], s2), FMul(s1[3], s2) >>

VECTOR_MIXED_DIV(s1, s2) ==
    << FDiv(s1[1], s2), FDiv(s1[2], s2), FDiv(s1[3], s2) >>

\* macros.h CROSS_PRODUCT with the operands exchanged
CROSS_PRODUCT_swapped(s1, s2) ==
    << FSub(FMul(s2[2], s1[3]), FMul(s2[3], s1[2])),
       FSub(FMul(s2[3], s1[1]), FMul(s2[1], s1[3])),
       FSub(FMul(s2[1], s1[2]), FMul(s2[2], s1[1])) >>

CROSS_PRODUCT(s1, s2) ==
    << FSub(FMul(s1[2], s2[3]), FMul(s1[3], s2[2])),
       FSub(FMul(s1[3], s2[1]), FMul(s1[1], s2[3])),
       FSub(FMul(s1[1], s2[2]), FMul(s1[2], s2[1])) >>

NORM2(s) == FAdd(FAdd(FMul(s[1], s[1]), FMul(s[2], s[2])), FMul(s[3], s[3]))

VecHasNaN(v) == \E a \in Axes : IsNaN(v[a])

VecFinite(v) == \A a \in Axes : IsFinite(v[a])

---------------------------------------------------------------------------
(* bessel.c *)

Slots == 0 .. (SH_BUFFER_SIZE - 1)

RECURSIVE factorial(_)
factorial(i) == IF i <= 0 THEN 1 ELSE i * factorial(i - 1)

RECURSIVE Pow(_, _)
Pow(b, e) == IF e <= 0 THEN 1 ELSE b * Pow(b, e - 1)

\* bessel.c:37-38
ClampOrder(order) == IF order > 5 THEN 5 ELSE order

\* bessel.c:48, coeff[i] for the (clamped) order
BesselCoeff(order, i) ==
    factorial(2 * order - i)
        \div (Pow(2, order - i) * factorial(i) * factorial(order - i))

\* bessel.c:53-59, the sum of coeff[i] * (j/freq_cutoff)^i for i = 0..order,
\* multiplied through by freq_cutoff^order to stay in the integers
RECURSIVE TransferSum(_, _, _, _)
TransferSum(order, freq_cutoff, j, i) ==
    IF i > order THEN 0
    ELSE BesselCoeff(order, i) * Pow(j, i) * Pow(freq_cutoff, order - i)
            + TransferSum(order, freq_cutoff, j, i + 1)

\* bessel.c:60 with the quotient inverted
KernelWeight_inverted(order, freq_cutoff, j) ==
    (Milli * TransferSum(order, freq_cutoff, j, 0))
        \div (BesselCoeff(order, 0) * Pow(freq_cutoff, order))

\* bessel.c:60, arr[j] = coeff[0] / arr[j], in thousandths (rounded down)
KernelWeight(order, freq_cutoff, j) ==
    (Milli * BesselCoeff(order, 0) * Pow(freq_cutoff, order))
        \div TransferSum(order, freq_cutoff, j, 0)

\* bessel.c:35-64 when the allocation succeeds
calculateBessel(size, order, freq_cutoff) ==
    [j \in 0 .. (size - 1) |->
        KernelWeight(ClampOrder(order), freq_cutoff, j)]

\* bessel.c:35-64 with arr cleared before the allocation is tested
calculateBesselInto_cleared(arr, size, order, freq_cutoff, alloc_ok) ==
    IF alloc_ok THEN calculateBessel(size, order, freq_cutoff)
    ELSE [j \in 0 .. (size - 1) |-> 0]

\* bessel.c:35-64 on the array arr: when calloc fails (alloc_ok false) the
\* function returns at line 43 before it writes arr
calculateBesselInto(arr, size, order, freq_cutoff, alloc_ok) ==
    IF alloc_ok THEN calculateBessel(size, order, freq_cutoff) ELSE arr

\* bessel.c:76-77 wrapping one slot short
WalkPrev_short(i) == IF i - 1 < 0 THEN SH_BUFFER_SIZE - 2 ELSE i - 1

\* bessel.c:76-77, the look-back of the filter walk
WalkPrev(i) == IF i - 1 < 0 THEN SH_BUFFER_SIZE - 1 ELSE i - 1

\* bessel.c:80, the break condition, evaluated left to right
WalkBreak(i, index, coeff_index) ==
    \/ i = index
    \/ bessel_coeff[coeff_index] < BESSEL_MIN_THRESHOLD
    \/ coeff_index > SH_BUFFER_SIZE

\* bessel.c:80 with every operand of the break condition evaluated
BreakReads_eager(i, index, coeff_index) == {coeff_index}

\* bessel.c:80: the positions of bessel_coeff the break condition reads;
\* || does not evaluate its right operand when i == index holds
BreakReads(i, index, coeff_index) ==
    IF i = index THEN {} ELSE {coeff_index}

\* The only element of a one-element set: binds a computed value once.
The(S) == CHOOSE x \in S : TRUE

\* bessel.c:76-77 applied k times to index (k <= SH_BUFFER_SIZE)
WalkBack(index, k) == (index + SH_BUFFER_SIZE - k) % SH_BUFFER_SIZE

\* bessel.c:80 after k passes of the loop body: i is then WalkBack(index, k)
\* and coeff_index is k
WalkStops(index, k) == WalkBreak(WalkBack(index, k), index, k)

\* bessel.c:72-82: the number of passes of the loop body made by the walk
\* started at index, the least k >= 1 after which the break condition holds
WalkCount(index) ==
    CHOOSE k \in 1..SH_BUFFER_SIZE :
        /\ WalkStops(index, k)
        /\ \A j \in 1..(k - 1) : ~WalkStops(index, j)

\* bessel.c:72-82: the slots the walk started at index reads, in the order
\* it reads them; the k-th of them is weighted by bessel_coeff[k - 1]
WalkSlots(index) ==
    [k \in 1..WalkCount(index) |-> WalkBack(index, k - 1)]

\* The sum of the finite numbers f[lo..hi], by halves.
RECURSIVE PlainSum(_, _, _)
PlainSum(f, lo, hi) ==
    IF lo = hi THEN f[lo]
    ELSE PlainSum(f, lo, (lo + hi) \div 2)
             + PlainSum(f, ((lo + hi) \div 2) + 1, hi)

\* The value FAdd accumulates over the sequence f, 0 + f[1] + f[2] + ...:
\* NaN once a NaN or both infinities have been added, else the infinity
\* added if any, else the sum.
FSum(f) ==
    IF \E k \in 1..Len(f) : IsNaN(f[k]) THEN NaN
    ELSE IF \E k \in 1..Len(f) : f[k] = PInf
         THEN (IF \E k \in 1..Len(f) : f[k] = NInf THEN NaN ELSE PInf)
    ELSE IF \E k \in 1..Len(f) : f[k] = NInf THEN NInf
    ELSE PlainSum(f, 1, Len(f))

\* bessel.c:74, the terms bessel_coeff[coeff_index] * arr[i] of val
WalkTerms(buf, ax, slots) ==
    [k \in 1..Len(slots) |-> FMul(bessel_coeff[k - 1], buf[slots[k]][ax])]

\* bessel.c:75, the terms of coeff_sum
WalkWeights(slots) == [k \in 1..Len(slots) |-> bessel_coeff[k - 1]]

\* bessel.c:83 without the division by coeff_sum
FilterValue_unnormalised(buf, ax, slots) ==
    FDiv(FSum(WalkTerms(buf, ax, slots)), Milli)

\* bessel.c:68-83, val / coeff_sum over the slots of the walk
FilterValue(buf, ax, slots) ==
    The({ FDiv(FSum(t[1]), FSum(t[2])) :
          t \in { << WalkTerms(buf, ax, slots), WalkWeights(slots) >> } })

\* bessel.c:66-84
dfilterBessel(buf, ax, index) ==
    The({ FilterValue(buf, ax, slots) : slots \in {WalkSlots(index)} })

\* bessel.c:86-104
ffilterBessel(buf, ax, index) ==
    The({ FilterValue(buf, ax, slots) : slots \in {WalkSlots(index)} })

\* bessel.h APPLY_DBESSEL: the three axes, each filtered in place
APPLY_DBESSEL(buf, index) ==
    The({ [b EXCEPT ![index] = << dfilterBessel(b, 1, index),
                                  dfilterBessel(b, 2, index),
                                  dfilterBessel(b, 3, index) >>] :
          b \in {buf} })

\* bessel.h APPLY_FBESSEL
APPLY_FBESSEL(buf, index) ==
    The({ [b EXCEPT ![index] = << ffilterBessel(b, 1, index),
                                  ffilterBessel(b, 2, index),
                                  ffilterBessel(b, 3, index) >>] :
          b \in {buf} })

\* The set of slots the filter applied at index reads.
FilterReads(index) ==
    The({ {slots[k] : k \in 1..Len(slots)} :
          slots \in {WalkSlots(index)} })

---------------------------------------------------------------------------
(* macros.h: square root, inverse square root, NORMALIZE *)

\* Integer square root (rounded down) by bisection on lo <= root < hi.
RECURSIVE SqrtBisect(_, _, _)
SqrtBisect(x, lo, hi) ==
    IF hi - lo <= 1 THEN lo
    ELSE LET mid == (lo + hi) \div 2
         IN  IF mid * mid <= x THEN SqrtBisect(x, mid, hi)
             ELSE SqrtBisect(x, lo, mid)

\* math.h sqrt
FSqrt(x) ==
    IF IsNaN(x) \/ x = PInf THEN x
    ELSE IF x < 0 THEN NaN
    ELSE SqrtBisect(x, 0, 46341)

\* macros.h NORM
NORM(s) == FSqrt(NORM2(s))

\* q2isqrt, the bit-level routine of acs-datagen.h:350-360 (MATH_SQRT is not
\* defined by the Makefile).  The result is [recip |-> r], standing for 1/r,
\* when x is finite and positive, and [val |-> v] otherwise:
\*   x = 0:    the initial guess 0x5f375a86 times 1.5^3, a large finite
\*             number (xhalf is 0, so each Newton round multiplies by 1.5);
\*   x = +Inf: xhalf is +Inf and the three rounds give -Inf, +Inf, -Inf;
\*   x = NaN:  NaN.
BigFloat == 1000000000

q2isqrt(x) ==
    IF IsNaN(x) THEN [recip |-> 0, val |-> NaN]
    ELSE IF x = PInf THEN [recip |-> 0, val |-> NInf]
    ELSE IF x = 0 THEN [recip |-> 0, val |-> BigFloat]
    ELSE [recip |-> FSqrt(x), val |-> 0]

\* macros.h INVNORM
INVNORM(s) == q2isqrt(NORM2(s))

\* x * sh__temp, the product in thousandths when sh__temp is 1/r
MulInv(x, inv) ==
    IF inv.recip # 0 THEN FDiv(FMul(x, Milli), inv.recip)
    ELSE FMul(x, inv.val)

\* q2isqrt of acs-datagen.h:363-366, the build with MATH_SQRT defined:
\* 1.0 / sqrt(x), which is +Inf for x = 0, 0 for x = +Inf and NaN for a NaN
\* or negative x
q2isqrt_MATH_SQRT(x) ==
    IF IsNaN(x) \/ x < 0 THEN [recip |-> 0, val |-> NaN]
    ELSE IF x = PInf THEN [recip |-> 0, val |-> 0]
    ELSE IF x = 0 THEN [recip |-> 0, val |-> PInf]
    ELSE [recip |-> FSqrt(x), val |-> 0]

\* sh__temp != 0 is false
InvIsZero(inv) == inv.recip = 0 /\ inv.val = 0

\* sh__temp is NaN or an infinity
InvIsNonFinite(inv) == inv.recip = 0 /\ ~IsFinite(inv.val)

\* macros.h NORMALIZE(dest, s1) with dest holding old and sh__temp the
\* inverse norm: the loop body runs when sh__temp != 0 (NaN != 0 is true
\* in C) and is skipped otherwise, which leaves dest as it was
NormalizeBy(old, s1, sh__temp) ==
    IF InvIsZero(sh__temp) THEN old
    ELSE << MulInv(s1[1], sh__temp), MulInv(s1[2], sh__temp),
            MulInv(s1[3], sh__temp) >>

\* macros.h NORMALIZE(dest, s1) as the Makefile builds it
NORMALIZE(old, s1) == NormalizeBy(old, s1, INVNORM(s1))

\* The inverse norm in the build named build: "bits" (the default) or
\* "sqrt" (MATH_SQRT defined)
InvNormIn(build, s1) ==
    IF build = "sqrt" THEN q2isqrt_MATH_SQRT(NORM2(s1)) ELSE INVNORM(s1)

---------------------------------------------------------------------------
(* acs-datagen.h *)

\* Two full turns of a history buffer, in cycles
RecoveryHorizon == 2 * SH_BUFFER_SIZE

\* acs-datagen.h:164, 189, 243, 279: cursor advance
NextIndex(index) == (index + 1) % SH_BUFFER_SIZE

\* acs-datagen.h:167, 282 wrapping one slot short
PrevIndex_short(index) ==
    IF index - 1 < 0 THEN SH_BUFFER_SIZE - index - 2 ELSE index - 1

\* acs-datagen.h:167, 282: previous address, wrapped around the buffer
PrevIndex(index) ==
    IF index - 1 < 0 THEN SH_BUFFER_SIZE - index - 1 ELSE index - 1

\* acs-datagen.h:162, 187, 241, 277: the flag after the "hit max" test
HitMax(index, full) == IF index = SH_BUFFER_SIZE - 1 THEN 1 ELSE full

\* acs-datagen.h:169, 283
SampleFreq == 1000000 \div DETUMBLE_TIME_STEP

\* acs-datagen.h:170-172: omega before filtering.  The code multiplies the
\* cross product by the float (freq / norm2); the model divides the product
\* cross * freq by norm2, which agrees on finite values up to rounding and
\* gives the same special value whenever norm2, freq / norm2 or the cross
\* product is zero, infinite or NaN.
OmegaRaw(bt_m1, bt_m0) ==
    LET cross == CROSS_PRODUCT(bt_m1, bt_m0)
        norm2 == NORM2(bt_m0)
    IN  << FDiv(FMul(cross[1], SampleFreq), norm2),
           FDiv(FMul(cross[2], SampleFreq), norm2),
           FDiv(FMul(cross[3], SampleFreq), norm2) >>

\* acs-datagen.h:159 with the test one sample earlier
OmegaSkip_early(mi, bfull) == mi < 1 /\ bfull = 0

\* acs-datagen.h:159 without the test of B_full
OmegaSkip_unlatched(mi, bfull) == mi < 2

\* acs-datagen.h:159: not enough measurements
OmegaSkip(mi, bfull) == mi < 2 /\ bfull = 0

\* acs-datagen.h:157-183.  mi, bfull, bi, bt: mag_index, B_full, bdot_index
\* and g_Bt as readSensors left them before the call.
getOmega(mi, bfull, bi, bt) ==
    IF OmegaSkip(mi, bfull)
    THEN [did |-> FALSE, omega_index |-> omega_index, W_full |-> W_full,
          g_W |-> g_W, raw |-> NullVec]
    ELSE The({ [did |-> TRUE, omega_index |-> oi,
                W_full |-> HitMax(omega_index, W_full),
                g_W |-> APPLY_FBESSEL([g_W EXCEPT ![oi] = raw], oi),
                raw |-> raw] :
               oi \in {NextIndex(omega_index)},
               raw \in {OmegaRaw(bt[bi], bt[PrevIndex(bi)])} })

\* acs-datagen.h:200-208: the differential lux vector; css is g_CSS[0..6]
\* as the tuple css[1..7]
LuxVector(css) ==
    LET znavg == FDiv(FAdd(css[6], css[7]), 2)
    IN  << FSub(css[1], css[2]), FSub(css[3], css[4]), FSub(css[5], znavg) >>

\* acs-datagen.h:212 with the threshold itself counted as night
IsNight_inclusive(css_mag) == css_mag <= CSS_MIN_LUX_THRESHOLD

\* acs-datagen.h:212: night time logic
IsNight(css_mag) == css_mag < CSS_MIN_LUX_THRESHOLD

\* acs-datagen.h:210-227: the slot and the night flag for a lux vector
SunVector(lux) ==
    IF IsNight(NORM(lux))
    THEN [night |-> 1, S |-> NullVec]
    ELSE [night |-> 0, S |-> NORMALIZE(lux, lux)]

\* acs-datagen.h:185-230 clearing a slot it has written a NaN to
getSVec_scrubbing(css) ==
    LET si == NextIndex(sol_index)
        sv == SunVector(LuxVector(css))
    IN  [sol_index |-> si, S_full |-> HitMax(sol_index, S_full),
         g_S |-> [g_S EXCEPT ![si] =
                      IF VecHasNaN(sv.S) THEN NullVec ELSE sv.S],
         g_night |-> sv.night]

\* acs-datagen.h:185-230
getSVec(css) ==
    LET si == NextIndex(sol_index)
        sv == SunVector(LuxVector(css))
    IN  [sol_index |-> si, S_full |-> HitMax(sol_index, S_full),
         g_S |-> [g_S EXCEPT ![si] = sv.S], g_night |-> sv.night]

\* acs-datagen.h:274 with the early return never taken
NotPrimed_never(mi, bfull) == FALSE

\* acs-datagen.h:274: the first sample, nothing to difference yet
NotPrimed(mi, bfull) == mi < 1 /\ bfull = 0

\* acs-datagen.h:280-285: Bdot before filtering
BdotRaw(b, mi) ==
    LET m1 == mi
        m0 == PrevIndex(mi)
    IN  VECTOR_MIXED_MUL(VECTOR_OP_SUB(b[m1], b[m0]), SampleFreq)

\* acs-datagen.h:295-315 without the test of g_W[omega_index]
FaultStatus_noW(b, mi, w, oi, s, si, w_oob) ==
    IF VecHasNaN(b[mi]) THEN -1
    ELSE IF VecHasNaN(s[si]) THEN -1
    ELSE 1

\* acs-datagen.h:295-315.  w_oob is what isnan() answers when omega_index is
\* still -1 and g_W[omega_index] is a read before the start of the array.
FaultStatus(b, mi, w, oi, s, si, w_oob) ==
    IF VecHasNaN(b[mi]) THEN -1
    ELSE IF (IF oi < 0 THEN w_oob ELSE VecHasNaN(w[oi])) THEN -1
    ELSE IF VecHasNaN(s[si]) THEN -1
    ELSE 1

\* Every channel of a lux array is finite
CssFinite(css) == \A k \in 1..7 : IsFinite(css[k])

\* The age of the pending fault after a cycle that returned st on the
\* samples mag_mes and css with Bdot[t-1] = prev: none after a success; 1
\* after a fault that is the first or whose cycle read a non-finite sample
\* or a null Bdot[t-1]; one more than before after a fault on finite samples
\* and a non-null Bdot[t-1].  The age stops growing past RecoveryHorizon.
FaultAge(age, st, mag_mes, css, prev) ==
    IF st # -1 THEN 0
    ELSE IF age = 0 \/ ~VecFinite(mag_mes) \/ ~CssFinite(css)
               \/ prev = NullVec THEN 1
    ELSE IF age > RecoveryHorizon THEN age
    ELSE age + 1

\* acs-datagen.h:238 counting a cycle twice
CountCycle_twice(ct) == ct + 2

\* acs-datagen.h:238, acs_ct++ (an unsigned long long: no wrap within any
\* run the model follows)
CountCycle(ct) == ct + 1

\* acs-datagen.h:232-316, one call of readSensors with the magnetometer
\* sample mag_mes and the lux sample css.  The bound variables hold, in the
\* order the code computes them: B_full and mag_index after lines 241-243
\* and g_B after line 270; B_full after line 278 (which sets B_full, not
\* Bdot_full), bdot_index after line 279, Bdot before filtering and g_Bt
\* after line 286; what getOmega and getSVec leave.
readSensors(mag_mes, css, w_oob) ==
    \E bf1 \in {HitMax(mag_index, B_full)}, mi \in {NextIndex(mag_index)} :
    \E b \in {APPLY_DBESSEL([g_B EXCEPT ![mi] = mag_mes], mi)} :
        /\ acs_ct' = CountCycle(acs_ct)
        /\ mag_index' = mi
        /\ g_B' = b
        /\ UNCHANGED <<g_first_detumble, Bdot_full>>
        /\ IF NotPrimed(mi, bf1)
           THEN /\ B_full' = bf1
                /\ status' = 1
                /\ writes' = [writes EXCEPT !.B = @ + 1]
                /\ last' = [mag |-> mag_mes, css |-> css, didBt |-> FALSE,
                            didW |-> FALSE, didS |-> FALSE,
                            rawBt |-> NullVec, rawW |-> NullVec]
                /\ fault_age' = 0
                /\ UNCHANGED <<g_Bt, g_W, g_S, bdot_index, omega_index,
                               sol_index, W_full, S_full, g_night>>
           ELSE \E bf2 \in {HitMax(bdot_index, bf1)},
                   bi \in {NextIndex(bdot_index)},
                   rawBt \in {BdotRaw(b, mi)} :
                \E bt \in {APPLY_DBESSEL([g_Bt EXCEPT ![bi] = rawBt], bi)} :
                \E om \in {getOmega(mi, bf2, bi, bt)}, sv \in {getSVec(css)} :
                    /\ B_full' = bf2
                    /\ bdot_index' = bi
                    /\ g_Bt' = bt
                    /\ omega_index' = om.omega_index
                    /\ W_full' = om.W_full
                    /\ g_W' = om.g_W
                    /\ sol_index' = sv.sol_index
                    /\ S_full' = sv.S_full
                    /\ g_S' = sv.g_S
                    /\ g_night' = sv.g_night
                    /\ status' = FaultStatus(b, mi, om.g_W, om.omega_index,
                                             sv.g_S, sv.sol_index, w_oob)
                    /\ fault_age' =
                           FaultAge(fault_age,
                                    FaultStatus(b, mi, om.g_W, om.omega_index,
                                                sv.g_S, sv.sol_index, w_oob),
                                    mag_mes, css, bt[PrevIndex(bi)])
                    /\ writes' = [B  |-> writes.B + 1,
                                  Bt |-> writes.Bt + 1,
                                  W  |-> writes.W + (IF om.did THEN 1 ELSE 0),
                                  S  |-> writes.S + 1]
                    /\ last' = [mag |-> mag_mes, css |-> css, didBt |-> TRUE,
                                didW |-> om.did, didS |-> TRUE,
                                rawBt |-> rawBt, rawW |-> om.raw]

---------------------------------------------------------------------------
(* Sensor samples *)

\* acs-datagen.h:247-258, the synthetic generator: a field of amplitude 50
\* rotating in the x-y plane and a sun at 30 degrees from +z rotating with
\* it, without the noise terms and with a phase step of 45 degrees per
\* cycle.  Sin8[k + 1] is 50 * sin(k * 45 deg).
Sin8 == << 0, 35, 50, 35, 0, -35, -50, -35 >>

GenSin(ct) == Sin8[(ct % 8) + 1]

GenCos(ct) == Sin8[((ct + 2) % 8) + 1]

\* acs-datagen.h:247-249
GenMag(ct) == << GenSin(ct), GenCos(ct), 0 >>

\* acs-datagen.h:252-258: g_CSS[0..6], 7000 * sin(30 deg) = 70 * 50 and
\* 7000 * cos(30 deg) = 6062
GenCSS(ct) ==
    LET c0 == 70 * GenCos(ct)
        c2 == 70 * GenSin(ct)
        c4 == 6062
    IN  << c0, 0 - c0, c2, 0 - c2, c4, 0 - c4, 0 - c4 >>

\* Lux arrays g_CSS[0..6]: dark (differential norm 300), exactly at the
\* threshold (300, 400, 0), daylight, and one with a NaN channel
CssDark == <<100, -100, 100, -100, 50, -50, -50>>

CssThreshold == <<150, -150, 200, -200, 0, 0, 0>>

CssDay == <<3500, -3500, 0, 0, 6062, -6062, -6062>>

CssNaN == <<NaN, -3500, 0, 0, 6062, -6062, -6062>>

\* Samples of the sensor harness: a magnetometer triple and a lux array.
\* The field is null, finite, NaN or infinite.
Samples ==
    { [mag |-> <<0, 0, 0>>,     css |-> CssDark],
      [mag |-> <<0, 50, 0>>,    css |-> CssDay],
      [mag |-> <<35, 35, 0>>,   css |-> CssThreshold],
      [mag |-> <<NaN, 0, 0>>,   css |-> CssDay],
      [mag |-> <<PInf, 50, 0>>, css |-> CssDark],
      [mag |-> <<0, 50, 0>>,    css |-> CssNaN] }

\* What the out-of-bounds read of g_W[-1] may answer to isnan()
OobChoices == IF omega_index < 0 THEN BOOLEAN ELSE {FALSE}

---------------------------------------------------------------------------
(* State after static initialisation and calculateBessel (datavis.c:44) *)

ZeroBuffer == [i \in Slots |-> NullVec]

ZeroPacket ==
    [start |-> "", end |-> "", step |-> 0, tnow |-> 0, tstart |-> 0,
     B |-> NullVec, Bt |-> NullVec, W |-> NullVec, S |-> NullVec]

\* acs-datagen.h:110-125 with g_first_detumble starting cleared
InitFlags_cleared ==
    /\ g_night = 0
    /\ g_first_detumble = 0
    /\ acs_ct = 0

\* acs-datagen.h:110-125
InitFlags ==
    /\ g_night = 0
    /\ g_first_detumble = 1
    /\ acs_ct = 0

\* acs-datagen.h:20-125, the statics of the pipeline
InitPipeline ==
    /\ g_B = ZeroBuffer /\ g_Bt = ZeroBuffer
    /\ g_W = ZeroBuffer /\ g_S = ZeroBuffer
    /\ mag_index = -1 /\ bdot_index = -1
    /\ omega_index = -1 /\ sol_index = -1
    /\ B_full = 0 /\ Bdot_full = 0 /\ W_full = 0 /\ S_full = 0
    /\ InitFlags
    /\ status = 0
    /\ writes = [B |-> 0, Bt |-> 0, W |-> 0, S |-> 0]
    /\ last = [mag |-> NullVec, css |-> <<0, 0, 0, 0, 0, 0, 0>>,
               didBt |-> FALSE, didW |-> FALSE, didS |-> FALSE,
               rawBt |-> NullVec, rawW |-> NullVec]
    /\ fault_age = 0

\* datavis.c:15, 25, 49: the statics and locals of main
InitMain ==
    /\ pc = "prime"
    /\ prime_i = 0
    /\ done = 0
    /\ caught = [during |-> "none", cycle |-> 0]
    /\ g_datavis_st = ZeroPacket
    /\ new_socket = -1
    /\ sz = 0

\* No walk in progress, NORMALIZE not used yet
InitProbes ==
    /\ walk = [by |-> "none", start |-> 0, i |-> 0, n |-> 0, seen |-> {}]
    /\ norm = [build |-> "none", s1 |-> NullVec, old |-> NullVec,
               dest |-> NullVec]

\* bessel.c:18, the kernel before any call of calculateBessel
ZeroKernel == [j \in Slots |-> 0]

\* The state at program start, before main derives the kernel
InitBoot ==
    /\ bessel_coeff = ZeroKernel
    /\ kernel = [order |-> 0, cutoff |-> 0, ok |-> FALSE]
    /\ InitPipeline
    /\ InitMain
    /\ InitProbes

\* The state after datavis.c:44 has derived the kernel
Init ==
    /\ bessel_coeff =
           calculateBessel(SH_BUFFER_SIZE, BESSEL_ORDER, BESSEL_FREQ_CUTOFF)
    /\ kernel = [order |-> BESSEL_ORDER, cutoff |-> BESSEL_FREQ_CUTOFF,
                 ok |-> TRUE]
    /\ InitPipeline
    /\ InitMain
    /\ InitProbes

---------------------------------------------------------------------------
(* The sensor harness: readSensors called with arbitrary samples *)

SensorCycle ==
    /\ acs_ct < MaxFreeCycles
    /\ \E smp \in Samples, w_oob \in OobChoices :
           readSensors(smp.mag, smp.css, w_oob)
    /\ UNCHANGED <<bessel_coeff, probeVars, mainVars>>

NextSensors == SensorCycle

SpecSensors == Init /\ [][NextSensors]_vars

---------------------------------------------------------------------------
(* datavis.c: main and the signal handler *)

\* The sample of the cycle readSensors is about to run (acs_ct and tnow are
\* advanced before the sample is generated)
GenSample == [mag |-> GenMag(acs_ct + 1), css |-> GenCSS(acs_ct + 1)]

\* main stands in a call of readSensors: in the priming loop, whose only
\* statement is the call (datavis.c:99-100), or at line 105 of the main
\* loop.  readSensors neither reads nor writes done, so a handler that
\* runs in the course of the call leaves what a handler that runs as the
\* call starts leaves.
CycleInFlight ==
    IF pc = "prime" /\ prime_i < PRIME_CYCLES THEN "prime"
    ELSE IF pc = "read" THEN "loop"
    ELSE "none"

\* datavis.c:16-19.  caught records whether a cycle was in flight and the
\* number of that cycle.
sighandler ==
    /\ pc # "exit"
    /\ done = 0
    /\ done' = 1
    /\ caught' = [during |-> CycleInFlight,
                  cycle |-> IF CycleInFlight = "none" THEN 0
                            ELSE acs_ct + 1]
    /\ UNCHANGED <<bessel_coeff, probeVars, pipelineVars, pc, prime_i,
                   g_datavis_st, new_socket, sz>>

\* datavis.c:99-100 with a pass of the priming loop that does not call
\* readSensors
PrimeCycle_idle ==
    /\ pc = "prime"
    /\ prime_i < PRIME_CYCLES
    /\ prime_i' = prime_i + 1
    /\ UNCHANGED <<bessel_coeff, probeVars, pipelineVars, pc, done, caught,
                   g_datavis_st, new_socket, sz>>

\* datavis.c:99-100, one pass of the priming loop
PrimeCycle ==
    /\ pc = "prime"
    /\ prime_i < PRIME_CYCLES
    /\ \E w_oob \in OobChoices :
           readSensors(GenSample.mag, GenSample.css, w_oob)
    /\ prime_i' = prime_i + 1
    /\ UNCHANGED <<bessel_coeff, probeVars, pc, done, caught, g_datavis_st,
                   new_socket, sz>>

\* datavis.c:99 (loop exit) and 101-102, the frame markers
PrimeEnd ==
    /\ pc = "prime"
    /\ prime_i = PRIME_CYCLES
    /\ g_datavis_st' = [g_datavis_st EXCEPT !.start = "FBEGIN", !.end = "FEND"]
    /\ pc' = "while"
    /\ UNCHANGED <<bessel_coeff, probeVars, pipelineVars, prime_i, done,
                   caught, new_socket, sz>>

\* datavis.c:103, while (!done)
LoopTest ==
    /\ pc = "while"
    /\ pc' = IF done = 0 THEN "read" ELSE "close"
    /\ UNCHANGED <<bessel_coeff, probeVars, pipelineVars, prime_i, done,
                   caught, g_datavis_st, new_socket, sz>>

\* datavis.c:105
LoopRead ==
    /\ pc = "read"
    /\ acs_ct < MaxCycles
    /\ \E w_oob \in OobChoices :
           readSensors(GenSample.mag, GenSample.css, w_oob)
    /\ pc' = "pack"
    /\ UNCHANGED <<bessel_coeff, probeVars, prime_i, done, caught,
                   g_datavis_st, new_socket, sz>>

\* datavis.c:107
PacketTime == acs_ct * 100 * 1000

\* datavis.c:110-112 and 116-118: a double stored into a float field
PackDouble(v) ==
    << DoubleToFloat(v[1]), DoubleToFloat(v[2]), DoubleToFloat(v[3]) >>

\* datavis.c:128-130: the slot of g_S the packet's S is read from
PacketSunSlot == mag_index

\* datavis.c:106-131: the fields main assigns; start, end and step keep
\* the value they have
Snapshot(st) ==
    [st EXCEPT !.tstart = 0,
               !.tnow = PacketTime,
               !.B = PackDouble(g_B[mag_index]),
               !.Bt = PackDouble(g_Bt[bdot_index]),
               !.W = g_W[omega_index],
               !.S = g_S[PacketSunSlot]]

\* datavis.c:106-131
Pack ==
    /\ pc = "pack"
    /\ g_datavis_st' = Snapshot(g_datavis_st)
    /\ pc' = "send"
    /\ UNCHANGED <<bessel_coeff, probeVars, pipelineVars, prime_i, done,
                   caught, new_socket, sz>>

\* datavis.h:79, sizeof(datavis_p)
PACK_SIZE == 96

\* datavis.c:132-135: buf is PACK_SIZE + 1 bytes; send() fails on the
\* descriptor -1 and may fail on a connection the client has closed
Send ==
    /\ pc = "send"
    /\ \E ok \in (IF new_socket < 0 THEN {FALSE} ELSE BOOLEAN) :
           IF ok
           THEN /\ sz' = PACK_SIZE + 1
                /\ pc' = "while"
           ELSE /\ sz' = -1
                /\ pc' = "accept"
    /\ UNCHANGED <<bessel_coeff, probeVars, pipelineVars, prime_i, done,
                   caught, g_datavis_st, new_socket>>

\* datavis.c:136-145: after a failed send, unless done, a non-blocking
\* accept that returns -1 or a new descriptor
Accept ==
    /\ pc = "accept"
    /\ IF done = 0
       THEN \E fd \in {-1, 4} : new_socket' = fd
       ELSE new_socket' = new_socket
    /\ pc' = "while"
    /\ UNCHANGED <<bessel_coeff, probeVars, pipelineVars, prime_i, done,
                   caught, g_datavis_st, sz>>

\* datavis.c:148-150
Close ==
    /\ pc = "close"
    /\ pc' = "exit"
    /\ UNCHANGED <<bessel_coeff, probeVars, pipelineVars, prime_i, done,
                   caught, g_datavis_st, new_socket, sz>>

Next ==
    \/ sighandler
    \/ PrimeCycle
    \/ PrimeEnd
    \/ LoopTest
    \/ LoopRead
    \/ Pack
    \/ Send
    \/ Accept
    \/ Close

Spec == Init /\ [][Next]_vars

---------------------------------------------------------------------------
(* The angular-velocity harness: getOmega called once on a field-rate
   buffer whose two newest slots are given *)

\* Field-rate vectors: the axes and their opposites, the null vector, some
\* vectors of other lengths, and vectors with a NaN or an infinite component
BdotInputs ==
    { <<1, 0, 0>>, <<0, 1, 0>>, <<0, 0, 1>>,
      <<-1, 0, 0>>, <<0, -1, 0>>, <<0, 0, -1>>,
      <<0, 0, 0>>, <<1, 1, 0>>, <<0, 2, 0>>, <<3, 0, 4>>,
      <<NaN, 0, 0>>, <<PInf, 0, 0>> }

\* acs-datagen.h:157-183 at the third cycle (mag_index 2, bdot_index 1),
\* with Bdot[t] = bt_m1 and Bdot[t-1] = bt_m0
OmegaCall ==
    /\ omega_index = -1
    /\ \E bt_m1 \in BdotInputs, bt_m0 \in BdotInputs :
       \E bt \in {[g_Bt EXCEPT ![1] = bt_m1, ![0] = bt_m0]} :
       \E om \in {getOmega(2, 0, 1, bt)} :
           /\ g_Bt' = bt
           /\ bdot_index' = 1
           /\ mag_index' = 2
           /\ omega_index' = om.omega_index
           /\ W_full' = om.W_full
           /\ g_W' = om.g_W
           /\ writes' = [writes EXCEPT !.W = @ + 1]
           /\ last' = [last EXCEPT !.didW = om.did, !.rawW = om.raw]
    /\ UNCHANGED <<bessel_coeff, probeVars, g_B, g_S, sol_index, B_full,
                   Bdot_full, S_full, g_night, g_first_detumble, acs_ct,
                   status, fault_age, mainVars>>

NextOmega == OmegaCall

SpecOmega == Init /\ [][NextOmega]_vars

---------------------------------------------------------------------------
(* The kernel harness: calculateBessel called with other orders and
   cutoffs, with calloc succeeding or failing, and the filters applied to
   a buffer that holds one value in every slot *)

\* Orders passed to calculateBessel; 6 is clamped to 5
Orders == 0 .. 6

\* Cutoff frequencies passed to calculateBessel
Cutoffs == {1, 2, 3}

\* The value held by every slot of the buffer: finite components, and
\* infinite ones
UniformValues == { <<7, -3, 0>>, <<5000, -1, 1>>, <<PInf, 50, NInf>> }

\* A buffer with c in every slot
UniformBuffer(c) == [i \in Slots |-> c]

\* bessel.c:35-64, one call of calculateBessel on bessel_coeff
KernelCall ==
    /\ mag_index = -1
    /\ \E order \in Orders, freq_cutoff \in Cutoffs, alloc_ok \in BOOLEAN :
        /\ bessel_coeff' = calculateBesselInto(bessel_coeff, SH_BUFFER_SIZE,
                                               order, freq_cutoff, alloc_ok)
        /\ kernel' = [order |-> order, cutoff |-> freq_cutoff,
                      ok |-> alloc_ok]
    /\ UNCHANGED <<pipelineVars, mainVars, walk, norm>>

\* APPLY_DBESSEL on the double buffer g_B and APPLY_FBESSEL on the float
\* buffer g_W at one index, every slot of both holding c
FilterUniform ==
    /\ mag_index = -1
    /\ kernel.ok
    /\ \E c \in UniformValues, index \in Slots :
        /\ g_B' = APPLY_DBESSEL(UniformBuffer(c), index)
        /\ g_W' = APPLY_FBESSEL(UniformBuffer(c), index)
        /\ mag_index' = index
        /\ omega_index' = index
    /\ UNCHANGED <<bessel_coeff, probeVars, g_Bt, g_S, bdot_index, sol_index,
                   B_full, Bdot_full, W_full, S_full, g_night,
                   g_first_detumble, acs_ct, status, writes, last,
                   fault_age, mainVars>>

NextKernel == KernelCall \/ FilterUniform

SpecKernel == InitBoot /\ [][NextKernel]_vars

---------------------------------------------------------------------------
(* The NORMALIZE harness: the macro expanded on a source vector and a
   destination, in either build of q2isqrt *)

\* Source vectors: the null vector, vectors along and off the axes, and
\* vectors with a NaN or an infinite component
NormalizeInputs ==
    { <<0, 0, 0>>, <<300, 0, 0>>, <<0, 300, 0>>, <<0, 0, 300>>,
      <<-300, 0, 0>>, <<0, -300, 0>>, <<0, 0, -300>>, <<300, 400, 0>>,
      <<1, 1, 1>>, <<3, 4, 0>>, <<2, 0, 0>>, <<0, 5, 12>>,
      <<100, 100, 100>>, <<7000, 0, 0>>, <<NaN, 0, 0>>, <<PInf, 0, 0>>,
      <<NInf, 1, 0>> }

\* What the destination holds before the macro runs
NormalizeOld == { <<0, 0, 0>>, <<600, 800, 0>>, <<5, 5, 5>> }

\* macros.h:553-560, NORMALIZE(dest, s1)
NormalizeCall ==
    /\ \E build \in {"bits", "sqrt"}, s1 \in NormalizeInputs,
          old \in NormalizeOld :
           norm' = [build |-> build, s1 |-> s1, old |-> old,
                    dest |-> NormalizeBy(old, s1, InvNormIn(build, s1))]
    /\ UNCHANGED <<bessel_coeff, kernel, walk, pipelineVars, mainVars>>

NextNormalize == NormalizeCall

SpecNormalize == Init /\ [][NextNormalize]_vars

---------------------------------------------------------------------------
(* The look-back harness: the one-step look-back applied again and again
   from a cursor *)

\* The look-back of the filter walk (bessel.c:76-77) or of the
\* previous-sample lookups (acs-datagen.h:166 and 282)
LookBack(by, i) == IF by = "filter" THEN WalkPrev(i) ELSE PrevIndex(i)

\* A walk starts at a cursor
WalkStart ==
    /\ walk.by = "none"
    /\ \E by \in {"filter", "sample"}, start \in Slots :
           walk' = [by |-> by, start |-> start, i |-> start, n |-> 0,
                    seen |-> {}]
    /\ UNCHANGED <<bessel_coeff, kernel, norm, pipelineVars, mainVars>>

\* One look-back; seen collects the slots stepped to
WalkStep ==
    /\ walk.by # "none"
    /\ walk.n < SH_BUFFER_SIZE
    /\ \E prev \in {LookBack(walk.by, walk.i)} :
           walk' = [walk EXCEPT !.i = prev, !.n = @ + 1,
                                !.seen = @ \cup {prev}]
    /\ UNCHANGED <<bessel_coeff, kernel, norm, pipelineVars, mainVars>>

NextLookBack == WalkStart \/ WalkStep

SpecLookBack == Init /\ [][NextLookBack]_vars

---------------------------------------------------------------------------
(* The fault scenario: two cycles with a null field, so that the third
   computes the angular velocity from a null Bdot[t-1], and then the
   rotating field of the generator for more than two turns of the buffers *)

\* Number of cycles of the fault scenario
MaxFaultCycles == 132

\* acs-datagen.h:232-316 on a null field sample in daylight
NullFieldCycle ==
    /\ acs_ct < 2
    /\ \E w_oob \in OobChoices : readSensors(NullVec, CssDay, w_oob)
    /\ UNCHANGED <<bessel_coeff, probeVars, mainVars>>

\* acs-datagen.h:232-316 on the generator's sample
RotatingCycle ==
    /\ acs_ct >= 2
    /\ acs_ct < MaxFaultCycles
    /\ \E w_oob \in OobChoices :
           readSensors(GenSample.mag, GenSample.css, w_oob)
    /\ UNCHANGED <<bessel_coeff, probeVars, mainVars>>

NextFault == NullFieldCycle \/ RotatingCycle

SpecFault == Init /\ [][NextFault]_vars

---------------------------------------------------------------------------
(* The filter-walk harness: the loop of dfilterBessel and ffilterBessel
   followed pass by pass, from any index and with kernels other than the
   one main derives *)

\* A kernel that holds w at every position
FlatKernel(w) == [j \in Slots |-> w]

\* Kernel contents: the kernel of main, the all-zero kernel, kernels that
\* never fall below the threshold (finite, infinite, NaN), and one that
\* falls below it only at the last position
WalkKernels ==
    { calculateBessel(SH_BUFFER_SIZE, BESSEL_ORDER, BESSEL_FREQ_CUTOFF),
      ZeroKernel, FlatKernel(Milli), FlatKernel(PInf), FlatKernel(NaN),
      [j \in Slots |-> IF j < SH_BUFFER_SIZE - 1 THEN Milli ELSE 0] }

\* bessel_coeff holds one of the kernels, which no call of calculateBessel
\* is recorded for
InitFilterWalk ==
    /\ bessel_coeff \in WalkKernels
    /\ kernel = [order |-> 0, cutoff |-> 0, ok |-> FALSE]
    /\ InitPipeline
    /\ InitMain
    /\ InitProbes

\* The walks of the two filters
FilterWalks == {"dfilter", "ffilter"}

\* bessel.c:68-72 and 88-92: val, coeff_index and coeff_sum are cleared and
\* i starts at index.  n is coeff_index, acc the number of accumulations
\* made, seen the slots of arr read and coeff_reads the positions of
\* bessel_coeff read.
FilterWalkStart ==
    /\ walk.by = "none"
    /\ \E by \in FilterWalks, index \in Slots :
           walk' = [by |-> by, start |-> index, i |-> index, n |-> 0,
                    seen |-> {}, acc |-> 0, coeff_reads |-> {},
                    stopped |-> FALSE]
    /\ UNCHANGED <<bessel_coeff, kernel, norm, pipelineVars, mainVars>>

\* bessel.c:74-81 and 94-101, one pass of the loop body: the accumulation
\* reads arr[i] and bessel_coeff[coeff_index], i looks back, coeff_index
\* advances and the break condition is evaluated
FilterWalkPass ==
    /\ walk.by \in FilterWalks
    /\ ~walk.stopped
    /\ \E i \in {WalkPrev(walk.i)}, coeff_index \in {walk.n + 1} :
           walk' = [walk EXCEPT
                       !.seen = @ \cup {walk.i},
                       !.coeff_reads =
                           @ \cup {walk.n}
                             \cup BreakReads(i, walk.start, coeff_index),
                       !.acc = @ + 1,
                       !.i = i,
                       !.n = coeff_index,
                       !.stopped = WalkBreak(i, walk.start, coeff_index)]
    /\ UNCHANGED <<bessel_coeff, kernel, norm, pipelineVars, mainVars>>

NextFilterWalk == FilterWalkStart \/ FilterWalkPass

SpecFilterWalk == InitFilterWalk /\ [][NextFilterWalk]_vars

---------------------------------------------------------------------------
(* Properties *)

\* The cycle just completed read finite samples
FiniteInput == VecFinite(last.mag) /\ CssFinite(last.css)

\* The slot getOmega used as Bdot[t-1] in the cycle just completed
PrevBdot == g_Bt[PrevIndex(bdot_index)]

\* The cycle just completed computed the angular velocity from a null
\* Bdot[t-1], everything else it read and wrote being finite, and reported
\* the fault
FaultFromNullBdot ==
    /\ last.didW
    /\ PrevBdot = NullVec
    /\ FiniteInput
    /\ VecFinite(g_B[mag_index])
    /\ VecFinite(g_Bt[bdot_index])
    /\ VecFinite(g_S[sol_index])
    /\ status = -1

\* The step is one whole cycle that read finite samples and whose Bdot[t-1]
\* is a finite vector other than the null vector
CleanCycleStep ==
    /\ acs_ct' = acs_ct + 1
    /\ FiniteInput'
    /\ VecFinite(g_B'[mag_index'])
    /\ VecFinite(g_Bt'[bdot_index'])
    /\ VecFinite(PrevBdot')
    /\ PrevBdot' # NullVec

\* C1: when a cycle returns -1 because Bdot[t-1] was the null vector, the
\* cycle that immediately follows, reading finite samples and having a
\* non-null Bdot[t-1], returns 1.
C1_NextCycleSucceeds ==
    [][(FaultFromNullBdot /\ CleanCycleStep) => status' = 1]_vars

\* The full flag of each history buffer
FullFlag ==
    [B |-> B_full, Bt |-> Bdot_full, W |-> W_full, S |-> S_full]

BufferNames == {"B", "Bt", "W", "S"}

\* C2: for each of the four buffers the full flag is false while fewer than
\* SH_BUFFER_SIZE writes have been made to it and true from the
\* SH_BUFFER_SIZE-th write on.
C2_FullAfterNWrites ==
    \A n \in BufferNames :
        FullFlag[n] = (IF writes[n] < SH_BUFFER_SIZE THEN 0 ELSE 1)

\* The slots at or below a cursor
UpToCursor(index) == 0 .. index

\* C3: while a buffer is not full, the filter the cycle applied to it read
\* only slots in [0, cursor].
C3_FilterReadsWrittenSlots ==
    /\ (acs_ct > 0 /\ B_full = 0)
           => FilterReads(mag_index) \subseteq UpToCursor(mag_index)
    /\ (last.didBt /\ Bdot_full = 0)
           => FilterReads(bdot_index) \subseteq UpToCursor(bdot_index)
    /\ (last.didW /\ W_full = 0)
           => FilterReads(omega_index) \subseteq UpToCursor(omega_index)

\* The cycles that have written the buffer so far are exactly those from
\* cycle number first on
FirstWrittenIn(n, first) ==
    writes[n] = (IF acs_ct < first THEN 0 ELSE acs_ct - first + 1)

\* C4 as the specification states it: cycle 1 writes only a field sample,
\* cycle 2 is the first to write a field-rate sample, and cycle 3 is the
\* first to write an angular-velocity sample and the first to write a
\* sun-vector sample.
C4_StartupAsStated ==
    /\ FirstWrittenIn("B", 1)
    /\ FirstWrittenIn("Bt", 2)
    /\ FirstWrittenIn("W", 3)
    /\ FirstWrittenIn("S", 3)

\* C4 as the code has it: cycle 1 writes only a field sample, cycle 2 is
\* the first to write a field-rate sample and the first to write a
\* sun-vector sample, and cycle 3 is the first to write an angular-velocity
\* sample.  The cursors agree with the write counts.
C4_Startup ==
    /\ FirstWrittenIn("B", 1)
    /\ FirstWrittenIn("Bt", 2)
    /\ FirstWrittenIn("S", 2)
    /\ FirstWrittenIn("W", 3)
    /\ (acs_ct = 1) => (bdot_index = -1 /\ omega_index = -1 /\ sol_index = -1
                        /\ ~last.didBt /\ ~last.didW /\ ~last.didS)
    /\ (acs_ct = 2) => (bdot_index = 0 /\ omega_index = -1 /\ sol_index = 0
                        /\ last.didBt /\ ~last.didW /\ last.didS)
    /\ (acs_ct = 3) => (bdot_index = 1 /\ omega_index = 0 /\ sol_index = 1
                        /\ last.didBt /\ last.didW /\ last.didS)

\* C4 witness: the third cycle has run and written the first angular
\* velocity and the second sun vector
C4_Witness ==
    /\ acs_ct = 3
    /\ writes = [B |-> 3, Bt |-> 2, W |-> 1, S |-> 2]
    /\ omega_index = 0

\* The vectors the cycle just completed wrote
FreshVectors ==
    {g_B[mag_index]}
        \cup (IF last.didBt THEN {g_Bt[bdot_index]} ELSE {})
        \cup (IF last.didW THEN {g_W[omega_index]} ELSE {})
        \cup (IF last.didS THEN {g_S[sol_index]} ELSE {})

\* C5: whenever a component the cycle freshly wrote (field, field-rate if
\* computed, angular velocity if computed, sun vector) is NaN or +/-Inf,
\* readSensors returns -1 for that cycle.
C5_NonFiniteIsFault ==
    (acs_ct > 0 /\ \E v \in FreshVectors : ~VecFinite(v)) => status = -1

\* C6: in a cycle that computes the angular velocity with a null
\* Bdot[t-1], readSensors returns -1.
C6_NullBdotIsFault ==
    (last.didW /\ PrevBdot = NullVec) => status = -1

\* C6 witness: a cycle read finite samples, computed the angular velocity
\* from a null Bdot[t-1] and a non-null Bdot[t], and returned -1
C6_Witness ==
    /\ last.didW
    /\ PrevBdot = NullVec
    /\ FiniteInput
    /\ g_Bt[bdot_index] # NullVec
    /\ VecFinite(g_Bt[bdot_index])
    /\ status = -1

\* The case of C7: the angular velocity was computed from
\* Bdot[t-1] = (0,0,1) and Bdot[t] = (1,0,0)
C7_Case ==
    /\ last.didW
    /\ PrevBdot = <<0, 0, 1>>
    /\ g_Bt[bdot_index] = <<1, 0, 0>>

\* C7 as the specification states it: with Bdot[t-1] = (0,0,1) and
\* Bdot[t] = (1,0,0) the angular velocity before filtering,
\* cross(Bdot[t], Bdot[t-1]) * F / |Bdot[t-1]|^2, is (0,1,0) * F.
C7_OmegaAsStated ==
    C7_Case => last.rawW = VECTOR_MIXED_MUL(<<0, 1, 0>>, SampleFreq)

\* C7 as the code has it: with Bdot[t-1] = (0,0,1) and Bdot[t] = (1,0,0)
\* the angular velocity before filtering is (0,-1,0) * F.
C7_Omega ==
    C7_Case => last.rawW = VECTOR_MIXED_MUL(<<0, -1, 0>>, SampleFreq)

\* C7 witness: getOmega ran on these two samples and produced (0,-F,0)
C7_Witness ==
    /\ C7_Case
    /\ last.rawW = <<0, 0 - SampleFreq, 0>>
    /\ omega_index = 0

\* The raw differential lux vector of the cycle just completed
LastLux == LuxVector(last.css)

\* Sum of the squares of the components
SquaredNorm(v) == v[1] * v[1] + v[2] * v[2] + v[3] * v[3]

\* v, in thousandths, has norm 1 within one percent
UnitNorm(v) ==
    /\ VecFinite(v)
    /\ SquaredNorm(v) >= 980 * Milli
    /\ SquaredNorm(v) <= 1020 * Milli

\* v, in thousandths, is lux divided by its norm, within two thousandths
\* per component
ScaledFrom(v, lux) ==
    LET n == SqrtBisect(SquaredNorm(lux), 0, 46341)
    IN  \A a \in Axes : Abs(v[a] * n - lux[a] * Milli) <= 2 * n

\* C8: after a cycle that computes the sun vector from finite lux values, a
\* raw differential lux norm below 500 leaves the null vector in the slot
\* at sol_index and g_night = 1; a norm of 500 or more leaves g_night = 0
\* and the raw vector scaled to unit norm.  The outcome is a function of the
\* cycle's lux sample alone.
C8_NightDetection ==
    (last.didS /\ CssFinite(last.css)) =>
        IF SquaredNorm(LastLux)
               < CSS_MIN_LUX_THRESHOLD * CSS_MIN_LUX_THRESHOLD
        THEN g_S[sol_index] = NullVec /\ g_night = 1
        ELSE /\ g_night = 0
             /\ UnitNorm(g_S[sol_index])
             /\ ScaledFrom(g_S[sol_index], LastLux)

\* C8 witness: a cycle at exactly the threshold (daylight) that follows a
\* cycle in the dark
C8_Witness ==
    /\ last.didS
    /\ last.css = CssThreshold
    /\ SquaredNorm(LastLux) = CSS_MIN_LUX_THRESHOLD * CSS_MIN_LUX_THRESHOLD
    /\ g_night = 0
    /\ sol_index > 0
    /\ g_S[sol_index - 1] = NullVec
    /\ g_S[sol_index] = <<600, 800, 0>>

\* C9: a snapshot holds, for field, field-rate, angular velocity and sun
\* vector, the value at that buffer's own cursor, which the cycle just
\* completed wrote.
C9_SnapshotAtCursors ==
    pc = "send" =>
        /\ g_datavis_st.B = PackDouble(g_B[mag_index])
        /\ g_datavis_st.Bt = PackDouble(g_Bt[bdot_index])
        /\ g_datavis_st.W = g_W[omega_index]
        /\ g_datavis_st.S = g_S[sol_index]

\* A record has just been transmitted
Transmitted == pc = "while" /\ sz = PACK_SIZE + 1

\* C10: the step field of every transmitted record equals acs_ct at the
\* moment the record was assembled (acs_ct does not change between the
\* assembly and the transmission).
C10_StepIsCycleCounter ==
    Transmitted => g_datavis_st.step = acs_ct

\* The cycle just completed was the first one: no field-rate was computed
InsufficientHistory == acs_ct > 0 /\ ~last.didBt

\* The cycle just completed computed a field-rate and read and wrote only
\* finite values
CleanCycle ==
    /\ last.didBt
    /\ FiniteInput
    /\ \A v \in FreshVectors : VecFinite(v)

\* The cycle just completed computed a field-rate and wrote a NaN
NaNCycle ==
    /\ last.didBt
    /\ \E v \in FreshVectors : VecHasNaN(v)

\* C11: readSensors reports three mutually distinct status values, for a
\* cycle with insufficient history, for a successful cycle and for a
\* faulted cycle: two consecutive cycles of different kinds never report
\* the same value.
C11_DistinctStatuses ==
    [][/\ (InsufficientHistory /\ CleanCycle') => status' # status
       /\ (InsufficientHistory /\ NaNCycle') => status' # status
       /\ (CleanCycle /\ NaNCycle') => status' # status]_vars

\* The kernel in use was derived with an order in 1..5
OrderOneToFive == kernel.ok /\ kernel.order \in 1..5

\* Every slot of the buffer holds what slot other holds
AllSlotsEqual(buf, other) == \A i \in Slots : buf[i] = buf[other]

\* C12: with a kernel derived for an order in 1..5 and a positive cutoff,
\* the filter applied at any index of a buffer whose slots all hold the
\* same value leaves that value at the index, on each axis (DC gain 1),
\* for the double filter and for the float filter.
C12_DCGain ==
    (mag_index >= 0 /\ OrderOneToFive) =>
        /\ AllSlotsEqual(g_B, WalkPrev(mag_index))
        /\ AllSlotsEqual(g_W, WalkPrev(omega_index))

\* C12 witness: an order 5 kernel, whose walk stops before it has gone
\* round the buffer, applied at the last index
C12_Witness ==
    /\ OrderOneToFive
    /\ kernel.order = 5
    /\ mag_index = SH_BUFFER_SIZE - 1
    /\ WalkCount(mag_index) < SH_BUFFER_SIZE
    /\ g_B[mag_index] = <<7, -3, 0>>
    /\ g_W[omega_index] = <<7, -3, 0>>

\* C13: for every order in 0..5, orders above 5 being treated as 5, and
\* every positive cutoff, the kernel calculateBessel writes has
\* weight[0] = 1 and weight[k] <= weight[k-1] for k in 1..N-1.
C13_KernelMonotone ==
    kernel.ok =>
        /\ bessel_coeff[0] = Milli
        /\ \A k \in 1 .. (SH_BUFFER_SIZE - 1) :
               bessel_coeff[k] <= bessel_coeff[k - 1]

\* C13 witness: a kernel derived with order 6 (treated as 5) that decays
\* from 1 to below the threshold
C13_Witness ==
    /\ kernel.ok
    /\ kernel.order = 6
    /\ bessel_coeff[0] = Milli
    /\ bessel_coeff[1] < Milli
    /\ bessel_coeff[1] > 0
    /\ bessel_coeff[SH_BUFFER_SIZE - 1] < BESSEL_MIN_THRESHOLD

\* C14: NORMALIZE applied to the null vector writes the null vector to the
\* destination, in the bit-level build and in the MATH_SQRT build, and
\* whenever the inverse norm is zero or non-finite the destination is set
\* to the null vector.
C14_NormalizeNull ==
    norm.build # "none" =>
        /\ norm.s1 = NullVec => norm.dest = NullVec
        /\ InvIsZero(InvNormIn(norm.build, norm.s1))
               => norm.dest = NullVec
        /\ InvIsNonFinite(InvNormIn(norm.build, norm.s1))
               => norm.dest = NullVec

\* C15: when calculateBessel fails to allocate its scratch array it
\* returns without writing the kernel, which keeps its previous contents
\* (all zero if never derived), and the program carries on where it was.
C15_AllocFailureKeepsKernel ==
    [][(kernel' # kernel /\ ~kernel'.ok)
           => (bessel_coeff' = bessel_coeff /\ pc' = pc)]_vars

\* C15 witness: a call failed after an earlier one had derived a kernel,
\* which is still in place
C15_Witness ==
    /\ ~kernel.ok
    /\ kernel.cutoff > 0
    /\ bessel_coeff[0] = Milli
    /\ bessel_coeff # ZeroKernel

\* C16: the one-step look-back applied N times from any cursor in [0,N)
\* returns to the cursor, and visits every slot exactly once on the way.
C16_LookBackCyclic ==
    walk.by # "none" =>
        /\ walk.seen \subseteq Slots
        /\ Cardinality(walk.seen) = walk.n
        /\ (walk.n > 0 /\ walk.n < SH_BUFFER_SIZE) => walk.i # walk.start
        /\ walk.n = SH_BUFFER_SIZE
               => (walk.i = walk.start /\ walk.seen = Slots)

\* C16 witness: N look-backs of the previous-sample lookup from cursor 0,
\* which wraps at its first step
C16_Witness ==
    /\ walk.by = "sample"
    /\ walk.start = 0
    /\ walk.n = SH_BUFFER_SIZE
    /\ walk.i = 0
    /\ walk.seen = Slots

\* C17: g_first_detumble is true at initialisation and no readSensors
\* cycle and no step of main changes it.
C17_FirstDetumbleKept == g_first_detumble = 1

\* C17 witness: the buffers have wrapped, a record has just been sent and
\* the flag is still set
C17_Witness ==
    /\ acs_ct > SH_BUFFER_SIZE
    /\ Transmitted
    /\ g_first_detumble = 1

\* C18: the advance that takes a buffer's cursor from N-1 back to 0 sets
\* that buffer's own full flag, and a full flag that is set is never
\* cleared.
C18_WrapSetsOwnFlag ==
    [][/\ (mag_index = SH_BUFFER_SIZE - 1 /\ mag_index' = 0)
              => B_full' = 1
       /\ (bdot_index = SH_BUFFER_SIZE - 1 /\ bdot_index' = 0)
              => Bdot_full' = 1
       /\ (omega_index = SH_BUFFER_SIZE - 1 /\ omega_index' = 0)
              => W_full' = 1
       /\ (sol_index = SH_BUFFER_SIZE - 1 /\ sol_index' = 0)
              => S_full' = 1
       /\ B_full = 1 => B_full' = 1
       /\ Bdot_full = 1 => Bdot_full' = 1
       /\ W_full = 1 => W_full' = 1
       /\ S_full = 1 => S_full' = 1]_vars

\* C19: after a cycle that returns the fault status, if every later sample
\* is finite and no later Bdot[t-1] is the null vector, a later cycle
\* returns the success status.  Stated for two turns of the buffers: a
\* fault followed only by such cycles is followed by a success within
\* RecoveryHorizon cycles.
C19_FaultNotPermanent == fault_age <= RecoveryHorizon

\* The indices the cycle just completed used on the history buffers: the
\* sample writes and the filters (acs-datagen.h:267-270, 284-286, 170-181,
\* 206-227), the previous-sample lookups (282, 166) and the final test
\* (295-314)
IndicesUsed ==
    {mag_index} \cup FilterReads(mag_index)
        \cup (IF last.didBt
              THEN {PrevIndex(mag_index), bdot_index, omega_index, sol_index}
                       \cup FilterReads(bdot_index)
              ELSE {})
        \cup (IF last.didW
              THEN {PrevIndex(bdot_index)} \cup FilterReads(omega_index)
              ELSE {})

\* C20: every index a cycle uses to read or write a history buffer lies in
\* [0, N-1], from the first cycle on.
C20_IndicesInRange ==
    acs_ct > 0 => IndicesUsed \subseteq Slots

\* mag_index moved back by k slots, modulo N
CursorBehind(k) == (mag_index + SH_BUFFER_SIZE - k) % SH_BUFFER_SIZE

\* C21: after every cycle k >= 3, also after the cursors have wrapped,
\* bdot_index = (mag_index - 1) mod N, omega_index = (mag_index - 2) mod N
\* and sol_index = bdot_index; every such cycle has advanced the four
\* cursors by one modulo N (mag_index is then (k - 1) mod N) and has
\* computed a field-rate, an angular velocity and a sun vector.
C21_CursorsInStep ==
    acs_ct >= 3 =>
        /\ mag_index = (acs_ct - 1) % SH_BUFFER_SIZE
        /\ bdot_index = CursorBehind(1)
        /\ omega_index = CursorBehind(2)
        /\ sol_index = bdot_index
        /\ last.didBt /\ last.didW /\ last.didS
        /\ writes.Bt = acs_ct - 1
        /\ writes.W = acs_ct - 2
        /\ writes.S = acs_ct - 1

\* C21 witness: the cycle after mag_index has wrapped to 1, which wraps
\* bdot_index and sol_index to 0 and leaves omega_index at N - 1
C21_Witness ==
    /\ acs_ct = SH_BUFFER_SIZE + 2
    /\ mag_index = 1
    /\ bdot_index = 0
    /\ sol_index = 0
    /\ omega_index = SH_BUFFER_SIZE - 1
    /\ last.didW

\* A filter walk has been started
FilterWalking == walk.by \in FilterWalks

\* C22: for any index in [0,N) and any kernel contents, the walk of
\* dfilterBessel and of ffilterBessel stops after at most N accumulations
\* (a walk that has not stopped has made fewer than N), and it reads
\* bessel_coeff only at positions in [0, N-1].
C22_WalkBounded ==
    FilterWalking =>
        /\ walk.acc <= SH_BUFFER_SIZE
        /\ ~walk.stopped => walk.acc < SH_BUFFER_SIZE
        /\ walk.coeff_reads \subseteq Slots
        /\ walk.seen \subseteq Slots

\* C22 witness: with a kernel that never falls below the threshold the walk
\* of the float filter has gone round the buffer, stopped on its return to
\* the index after N accumulations and read every position of the kernel
C22_Witness ==
    /\ FilterWalking
    /\ walk.by = "ffilter"
    /\ bessel_coeff = FlatKernel(NaN)
    /\ walk.stopped
    /\ walk.acc = SH_BUFFER_SIZE
    /\ walk.i = walk.start
    /\ walk.coeff_reads = Slots
    /\ walk.seen = Slots

\* The slot before slot index, modulo N
SlotBefore(index) == (index + SH_BUFFER_SIZE - 1) % SH_BUFFER_SIZE

\* C23: in every cycle that computes a field-rate, the value written
\* before filtering is (field[mag_index] - field[(mag_index - 1) mod N])
\* times the sample frequency, also when mag_index has just wrapped to 0;
\* and the angular velocity getOmega writes before filtering is computed
\* from the field-rate at bdot_index and at (bdot_index - 1) mod N.
C23_FieldRateFormula ==
    /\ last.didBt =>
           last.rawBt =
               VECTOR_MIXED_MUL(VECTOR_OP_SUB(g_B[mag_index],
                                              g_B[SlotBefore(mag_index)]),
                                SampleFreq)
    /\ last.didW =>
           last.rawW = OmegaRaw(g_Bt[bdot_index],
                                g_Bt[SlotBefore(bdot_index)])

\* C23 witness: the cycle that wraps mag_index to 0 has differenced slot 0
\* against slot N-1, whose content differs from that of slot N-2
C23_Witness ==
    /\ acs_ct = SH_BUFFER_SIZE + 1
    /\ mag_index = 0
    /\ last.didBt
    /\ last.rawBt # NullVec
    /\ g_B[SH_BUFFER_SIZE - 1] # g_B[SH_BUFFER_SIZE - 2]
    /\ last.didW
    /\ last.rawW # NullVec

\* C24: the first cycle after initialisation changes only slot 0 of the
\* field buffer, the field cursor and the cycle counter; the field-rate,
\* angular-velocity and sun-vector buffers, their cursors (still -1), the
\* four full flags and the night flag are left as they were.
C24_FirstCycleFrame ==
    [][(acs_ct = 0 /\ acs_ct' = 1) =>
           /\ mag_index' = 0
           /\ \A i \in Slots \ {0} : g_B'[i] = g_B[i]
           /\ g_Bt' = g_Bt /\ g_W' = g_W /\ g_S' = g_S
           /\ bdot_index' = -1 /\ omega_index' = -1 /\ sol_index' = -1
           /\ B_full' = B_full /\ Bdot_full' = Bdot_full
           /\ W_full' = W_full /\ S_full' = S_full
           /\ g_night' = g_night
           /\ g_first_detumble' = g_first_detumble
           /\ bessel_coeff' = bessel_coeff]_vars

\* C24 witness: the first cycle has run on a non-null field in daylight,
\* and only the field buffer shows it
C24_Witness ==
    /\ acs_ct = 1
    /\ mag_index = 0
    /\ last.mag = <<0, 50, 0>>
    /\ last.css = CssDay
    /\ g_B[0] # NullVec
    /\ bdot_index = -1 /\ omega_index = -1 /\ sol_index = -1
    /\ g_Bt = ZeroBuffer /\ g_W = ZeroBuffer /\ g_S = ZeroBuffer
    /\ B_full = 0 /\ g_night = 0

\* The cursor after one advance
Advanced(index) == (index + 1) % SH_BUFFER_SIZE

\* C25: a cycle that returns the fault status leaves the buffers as that
\* cycle wrote them: the cursors have advanced as in a successful cycle
\* (omega_index only where an angular velocity is computed), each fresh
\* slot holds the value the cycle computed for it, NaN included, and every
\* other slot holds what it held before.
C25_FaultKeepsWrites ==
    [][(acs_ct' # acs_ct /\ status' = -1) =>
           /\ mag_index' = Advanced(mag_index)
           /\ bdot_index' = Advanced(bdot_index)
           /\ sol_index' = Advanced(sol_index)
           /\ omega_index' = IF last'.didW THEN Advanced(omega_index)
                             ELSE omega_index
           /\ g_B' = APPLY_DBESSEL([g_B EXCEPT ![mag_index'] = last'.mag],
                                   mag_index')
           /\ g_Bt' = APPLY_DBESSEL([g_Bt EXCEPT ![bdot_index'] =
                                         last'.rawBt], bdot_index')
           /\ g_W' = IF last'.didW
                     THEN APPLY_FBESSEL([g_W EXCEPT ![omega_index'] =
                                             last'.rawW], omega_index')
                     ELSE g_W
           /\ g_S' = [g_S EXCEPT ![sol_index'] =
                          SunVector(LuxVector(last'.css)).S]
           /\ VecHasNaN(last'.mag) => VecHasNaN(g_B'[mag_index'])]_vars

\* C25 witness: the third cycle read a NaN field sample and returned the
\* fault status; the cursors stand where a successful third cycle leaves
\* them and the NaN is in the fresh slots
C25_Witness ==
    /\ acs_ct = 3
    /\ status = -1
    /\ VecHasNaN(last.mag)
    /\ mag_index = 2 /\ bdot_index = 1 /\ omega_index = 0 /\ sol_index = 1
    /\ VecHasNaN(g_B[mag_index])
    /\ VecHasNaN(g_Bt[bdot_index])
    /\ VecHasNaN(g_W[omega_index])
    /\ VecFinite(g_B[0])

\* C26: acs_ct increases by exactly one on every call of readSensors,
\* whatever the cycle returns, and no other step changes it (every call
\* writes one field sample, which writes.B counts).
C26_CounterStepsByOne ==
    [][/\ writes'.B # writes.B => acs_ct' = acs_ct + 1
       /\ acs_ct' # acs_ct => (acs_ct' = acs_ct + 1 /\ status' \in {1, -1})
       /\ acs_ct' = writes'.B]_vars

\* C26 witness: the first cycle could only report insufficient history,
\* the second has returned the fault status, and the counter stands at 2
C26_Witness ==
    /\ acs_ct = 2
    /\ writes.B = 2
    /\ status = -1
    /\ last.didBt /\ ~last.didW

\* The handler ran while a cycle was in flight
CaughtInFlight == done = 1 /\ caught.during # "none"

\* C27: when the termination signal arrives while a cycle is in flight,
\* that cycle runs to completion and no further readSensors cycle is
\* started afterwards: the cycle counter never passes the number of the
\* cycle that was in flight, and main exits only after that cycle.
C27_NoCycleAfterSignal ==
    CaughtInFlight =>
        /\ acs_ct <= caught.cycle
        /\ pc \in {"close", "exit"} => acs_ct = caught.cycle

\* main is about to assemble a telemetry snapshot (datavis.c:106-131)
Assembling == pc = "pack"

\* C28: whenever main assembles a snapshot, the cursors it indexes with,
\* mag_index, bdot_index and omega_index, are in [0, N-1]: the ten priming
\* cycles and the cycle of the pass have run before.
C28_SnapshotCursorsInRange ==
    Assembling =>
        /\ acs_ct > PRIME_CYCLES
        /\ mag_index \in Slots
        /\ bdot_index \in Slots
        /\ omega_index \in Slots

\* C28 witness: the first snapshot, assembled after cycle 11
C28_Witness ==
    /\ Assembling
    /\ acs_ct = PRIME_CYCLES + 1
    /\ mag_index = PRIME_CYCLES
    /\ bdot_index = PRIME_CYCLES - 1
    /\ omega_index = PRIME_CYCLES - 2
    /\ g_datavis_st.B = NullVec

=============================================================================
